---- MODULE Spec2Model ----
(***************************************************************************)
(* Financial forecasting proof of concept: the table loader                *)
(* (analyze_data.py), the forecast and the two summary views              *)
(* (forecasting.py) and the pipeline that chains them (app.py).            *)
(*                                                                         *)
(* Text is a sequence of one-character strings, so that lower(), strip()   *)
(* and str.contains() are computed and not assumed.  A cell of a data      *)
(* frame is a record: a number, a missing value (NaN) or a text.  A data   *)
(* frame is its ordered column labels and its ordered rows, every row      *)
(* aligned with the labels.  Amounts are integers: the sums and            *)
(* differences the code takes of them are exact in float64.                *)
(***************************************************************************)
EXTENDS Integers, Sequences, FiniteSets, TLC

VARIABLES
    df_raw,           \* the headerless grid pd.read_excel hands to clean_and_parse_data
    load_raises,      \* whether pd.read_excel raises (no such sheet, unreadable file)
    parsed,           \* the pair clean_and_parse_data returned
    data_source,      \* st.session_state.data_source
    start_year,       \* sidebar input
    end_year,         \* sidebar input
    forecast_df,      \* app.py: forecast_df
    summary_df,       \* app.py: summary_df
    exec_summary_df,  \* app.py: exec_summary_df
    arg_before,       \* the table object handed to the latest call, as it was before the call
    arg_after,        \* the same object after the call returned
    pc                \* position in the script

vars == <<df_raw, load_raises, parsed, data_source, start_year, end_year,
          forecast_df, summary_df, exec_summary_df, arg_before, arg_after, pc>>

----------------------------------------------------------------------------
(* Text *)

UpperCase == <<"A","B","C","D","E","F","G","H","I","J","K","L","M",
               "N","O","P","Q","R","S","T","U","V","W","X","Y","Z">>
LowerCase == <<"a","b","c","d","e","f","g","h","i","j","k","l","m",
               "n","o","p","q","r","s","t","u","v","w","x","y","z">>
DigitChars == <<"0","1","2","3","4","5","6","7","8","9">>

\* str.lower() of one character.
LowerChar(c) ==
    IF \E i \in 1..Len(UpperCase) : UpperCase[i] = c
    THEN LowerCase[CHOOSE i \in 1..Len(UpperCase) : UpperCase[i] = c]
    ELSE c

\* str.lower(), computed.
str_lower(s) == [i \in 1..Len(s) |-> LowerChar(s[i])]

\* str.strip(), computed: leading and trailing blanks removed.
RECURSIVE LStrip(_)
LStrip(s) == IF s # <<>> /\ Head(s) = " " THEN LStrip(Tail(s)) ELSE s
RECURSIVE RStrip(_)
RStrip(s) == IF s # <<>> /\ s[Len(s)] = " " THEN RStrip(SubSeq(s, 1, Len(s) - 1)) ELSE s
str_strip(s) == RStrip(LStrip(s))

\* str.contains(k), computed, for a pattern that holds no regex metacharacter:
\* k occurs in s.
str_contains(s, k) ==
    \E i \in 1..(Len(s) - Len(k) + 1) : SubSeq(s, i, i + Len(k) - 1) = k

\* str.isdigit(): one character at least, decimal digits only.
IsDigit(s) ==
    /\ s # <<>>
    /\ \A i \in 1..Len(s) : \E d \in 1..Len(DigitChars) : DigitChars[d] = s[i]

DigitValue(c) == (CHOOSE d \in 1..Len(DigitChars) : DigitChars[d] = c) - 1

\* int(s) of a string of decimal digits.
RECURSIVE IntOf(_)
IntOf(s) ==
    IF s = <<>> THEN 0
    ELSE 10 * IntOf(SubSeq(s, 1, Len(s) - 1)) + DigitValue(s[Len(s)])

\* str(n) of a natural number.
RECURSIVE StrOf(_)
StrOf(n) ==
    IF n < 10 THEN <<DigitChars[n + 1]>>
    ELSE StrOf(n \div 10) \o <<DigitChars[(n % 10) + 1]>>

----------------------------------------------------------------------------
(* The texts of the program and of its inputs *)

\* Labels.
T_Category == <<"C","a","t","e","g","o","r","y">>
T_Category_Clean == <<"C","a","t","e","g","o","r","y","_","C","l","e","a","n">>
T_Notes == <<"N","o","t","e","s">>
T_nan == <<"n","a","n">>
T_na == <<"n","/","a">>

\* The messages of clean_and_parse_data (lines 36 and 77) and the text of an
\* exception read_excel raises for a workbook without the sheet.
T_HeaderNotFound == <<"C","o","u","l","d"," ","n","o","t"," ","i","d","e","n","t","i","f","y"," ","h","e","a","d","e","r"," ","r","o","w"," ","(","c","h","e","c","k","e","d"," ","f","o","r"," ","'","C","a","t","e","g","o","r","y","'",","," ","'","A","c","c","o","u","n","t","'",","," ","o","r"," ","r","o","w"," ","a","b","o","v","e"," ","'","G","r","o","s","s"," ","S","a","l","e","s","'",")",".">>
T_ParsingErrorPrefix == <<"P","a","r","s","i","n","g"," ","E","r","r","o","r",":"," ">>
T_WorksheetNotFound == <<"W","o","r","k","s","h","e","e","t"," ","n","a","m","e","d"," ","'","5"," ","Y","E","A","R","S","_","A","n","n","u","a","l"," ","P","r","o","f","i","t"," ","a","n","d"," ","L","o","s","s","'"," ","n","o","t"," ","f","o","u","n","d">>
T_NoStrAccessor == <<"'","D","a","t","a","F","r","a","m","e","'"," ","o","b","j","e","c","t"," ","h","a","s"," ","n","o"," ","a","t","t","r","i","b","u","t","e"," ","'","s","t","r","'">>

\* The keywords of forecasting.py (lines 115-118, 124-128, 185-188, 203-207,
\* 212, 215) and of analyze_data.py (lines 20, 27).
K_Gross_Sales == <<"G","r","o","s","s"," ","S","a","l","e","s">>
K_Discounts == <<"D","i","s","c","o","u","n","t","s">>
K_Returns == <<"R","e","t","u","r","n","s">>
K_Cost_of_Goods_Sold == <<"C","o","s","t"," ","o","f"," ","G","o","o","d","s"," ","S","o","l","d">>
K_Sales_Discount == <<"S","a","l","e","s"," ","D","i","s","c","o","u","n","t">>
K_Sales_Returns == <<"S","a","l","e","s"," ","R","e","t","u","r","n","s">>
K_Interest_Expense == <<"I","n","t","e","r","e","s","t"," ","E","x","p","e","n","s","e">>
K_Income_Tax == <<"I","n","c","o","m","e"," ","T","a","x">>
K_Marketing == <<"M","a","r","k","e","t","i","n","g">>
K_Salaries == <<"S","a","l","a","r","i","e","s">>
K_Payroll == <<"P","a","y","r","o","l","l">>
K_Travel == <<"T","r","a","v","e","l">>
K_Hosting == <<"H","o","s","t","i","n","g">>
K_Stationary == <<"S","t","a","t","i","o","n","a","r","y">>
K_Rent == <<"R","e","n","t">>
K_Utilities == <<"U","t","i","l","i","t","i","e","s">>
K_Office == <<"O","f","f","i","c","e">>
K_Professional == <<"P","r","o","f","e","s","s","i","o","n","a","l">>
K_Insurance == <<"I","n","s","u","r","a","n","c","e">>
K_Depreciation == <<"D","e","p","r","e","c","i","a","t","i","o","n">>
K_Interest == <<"I","n","t","e","r","e","s","t">>
K_Other_Operating == <<"O","t","h","e","r"," ","O","p","e","r","a","t","i","n","g">>
K_Amortization == <<"A","m","o","r","t","i","z","a","t","i","o","n">>
K_Bad_Debt == <<"B","a","d"," ","D","e","b","t">>
K_category == <<"c","a","t","e","g","o","r","y">>
K_account == <<"a","c","c","o","u","n","t">>

\* Category texts of the input tables that are no keyword themselves.
T_OtherGrossSales == <<"O","n","l","i","n","e"," ","g","r","o","s","s"," ","s","a","l","e","s">>
T_LessSalesDiscounts == <<"L","e","s","s"," ","S","a","l","e","s"," ","D","i","s","c","o","u","n","t","s"," ","(","e","n","t","e","r"," ","a","s"," ","n","e","g","a","t","i","v","e",")">>
T_LessSalesReturns == <<"L","e","s","s"," ","S","a","l","e","s"," ","R","e","t","u","r","n","s"," ","(","e","n","t","e","r"," ","a","s"," ","n","e","g","a","t","i","v","e",")">>
T_OfficeRent == <<"O","f","f","i","c","e"," ","R","e","n","t">>
T_ProfitAndLossAccount == <<"P","r","o","f","i","t"," ","a","n","d"," ","L","o","s","s"," ","A","c","c","o","u","n","t">>
T_CATEGORY == <<"C","A","T","E","G","O","R","Y">>
T_Account == <<"A","c","c","o","u","n","t">>
T_RentPadded == <<" ","R","e","n","t"," ">>
\* The categories of get_empty_template that are not keywords themselves.
T_MarketingAdvertising == <<"M","a","r","k","e","t","i","n","g"," ","&"," ","A","d","v","e","r","t","i","s","i","n","g">>
T_SalariesWages == <<"S","a","l","a","r","i","e","s"," ","&"," ","W","a","g","e","s">>
T_PayrollBenefitsTaxes == <<"P","a","y","r","o","l","l"," ","B","e","n","e","f","i","t","s"," ","&"," ","T","a","x","e","s">>
T_TravelEntertainment == <<"T","r","a","v","e","l"," ","&"," ","E","n","t","e","r","t","a","i","n","m","e","n","t">>
T_WebHosting == <<"W","e","b"," ","H","o","s","t","i","n","g"," ","a","n","d"," ","m","a","i","n","t","e","n","a","n","c","e">>
T_OfficeSupplies == <<"O","f","f","i","c","e"," ","S","u","p","p","l","i","e","s">>
T_ProfessionalFees == <<"P","r","o","f","e","s","s","i","o","n","a","l"," ","F","e","e","s">>
T_OtherOperatingExpenses(n) == <<"O","t","h","e","r"," ","O","p","e","r","a","t","i","n","g"," ","E","x","p","e","n","s","e","s", DigitChars[n + 1]>>
T_InterestExpenseOfficeLoan == <<"I","n","t","e","r","e","s","t"," ","E","x","p","e","n","s","e"," ","-"," ","O","f","f","i","c","e"," ","L","o","a","n">>
T_GrossSalesPadded == <<" "," ","G","R","O","S","S"," ","S","A","L","E","S"," ">>

Keywords ==
    { K_Gross_Sales, K_Discounts, K_Returns, K_Cost_of_Goods_Sold,
      K_Sales_Discount, K_Sales_Returns, K_Interest_Expense, K_Income_Tax,
      K_Marketing, K_Salaries, K_Payroll, K_Travel,
      K_Hosting, K_Stationary, K_Rent, K_Utilities,
      K_Office, K_Professional, K_Insurance, K_Depreciation,
      K_Interest, K_Other_Operating, K_Amortization, K_Bad_Debt,
      K_category, K_account }
CategoryTexts ==
    Keywords \cup { T_OtherGrossSales, T_LessSalesDiscounts, T_LessSalesReturns,
                    T_OfficeRent, T_GrossSalesPadded, T_nan, T_na,
                    T_ProfitAndLossAccount, T_CATEGORY, T_Account, T_RentPadded,
                    T_Category }

\* The three string methods, tabulated once over the texts above.  A text
\* that is not in a table is computed.
LowerTable == [s \in CategoryTexts |-> str_lower(s)]
Lower(s) == IF s \in DOMAIN LowerTable THEN LowerTable[s] ELSE str_lower(s)

LoweredTexts == CategoryTexts \cup { LowerTable[s] : s \in CategoryTexts }
StripTable == [s \in LoweredTexts |-> str_strip(s)]
Strip(s) == IF s \in DOMAIN StripTable THEN StripTable[s] ELSE str_strip(s)

CleanTexts == LoweredTexts \cup { StripTable[s] : s \in LoweredTexts }
LoweredKeywords == { LowerTable[k] : k \in Keywords }
ContainsTable == [s \in CleanTexts |-> { k \in LoweredKeywords : str_contains(s, k) }]
Contains(s, k) ==
    IF s \in DOMAIN ContainsTable /\ k \in LoweredKeywords
    THEN k \in ContainsTable[s]
    ELSE str_contains(s, k)

\* str.contains(k, case=False)
ContainsNoCase(s, k) == Contains(Lower(s), Lower(k))

----------------------------------------------------------------------------
(* Cells and data frames *)

Num(n) == [k |-> "num", n |-> n, s |-> <<>>]
NaN == [k |-> "nan", n |-> 0, s |-> <<>>]
Str(s) == [k |-> "str", n |-> 0, s |-> s]

\* astype(str) of a cell: a missing value reads "nan".
AsStr(c) ==
    CASE c.k = "str" -> c.s
      [] c.k = "num" -> IF c.n >= 0 THEN StrOf(c.n) ELSE <<"-">> \o StrOf(-c.n)
      [] OTHER -> T_nan

\* pd.to_numeric(errors='coerce'): a text that is no number becomes missing.
ToNumeric(c) ==
    CASE c.k = "num" -> c
      [] c.k = "str" -> IF IsDigit(Strip(c.s)) THEN Num(IntOf(Strip(c.s))) ELSE NaN
      [] OTHER -> NaN

\* fillna(0)
FillNa0(c) == IF c.k = "nan" THEN Num(0) ELSE c

NoTable == [columns |-> <<>>, rows |-> <<>>, none |-> TRUE]
Frame(columns, rows) == [columns |-> columns, rows |-> rows, none |-> FALSE]

HasColumn(df, label) == \E i \in 1..Len(df.columns) : df.columns[i] = label

\* The position of a label: the first column carrying it.
ColumnIndex(df, label) ==
    CHOOSE i \in 1..Len(df.columns) :
        /\ df.columns[i] = label
        /\ \A j \in 1..(i - 1) : df.columns[j] # label

\* df[label]: the cells of one column, in row order.
Column(df, label) == [r \in 1..Len(df.rows) |-> df.rows[r][ColumnIndex(df, label)]]

\* row[label]: the cell of one row in one column.
Cell(df, r, label) == df.rows[r][ColumnIndex(df, label)]

\* Variant of SetColumn: a new column is put first among the value columns,
\* right after the leading column, and not after the last one.
SetColumn_InsertFirst(df, label, values) ==
    IF HasColumn(df, label)
    THEN Frame(df.columns,
               [r \in 1..Len(df.rows) |->
                   [df.rows[r] EXCEPT ![ColumnIndex(df, label)] = values[r]]])
    ELSE Frame(<<Head(df.columns), label>> \o Tail(df.columns),
               [r \in 1..Len(df.rows) |->
                   <<Head(df.rows[r]), values[r]>> \o Tail(df.rows[r])])

\* df[label] = values: an existing column is overwritten in place, a new one is
\* appended after the last column.
SetColumn(df, label, values) ==
    IF HasColumn(df, label)
    THEN Frame(df.columns,
               [r \in 1..Len(df.rows) |->
                   [df.rows[r] EXCEPT ![ColumnIndex(df, label)] = values[r]]])
    ELSE Frame(Append(df.columns, label),
               [r \in 1..Len(df.rows) |-> Append(df.rows[r], values[r])])

\* Insertion of one number into an ascending sequence; list.sort() by repetition.
RECURSIVE InsertSorted(_, _)
InsertSorted(seq, x) ==
    IF seq = <<>> THEN <<x>>
    ELSE IF x < Head(seq) THEN <<x>> \o seq
    ELSE <<Head(seq)>> \o InsertSorted(Tail(seq), x)
RECURSIVE Sort(_)
Sort(seq) == IF seq = <<>> THEN <<>> ELSE InsertSorted(Sort(Tail(seq)), Head(seq))

----------------------------------------------------------------------------
(* analyze_data.clean_and_parse_data *)

\* A returned message, and the None returned in its place.
Message(text) == [none |-> FALSE, text |-> text]
NoMessage == [none |-> TRUE, text |-> <<>>]

\* An exception with the text str(e) gives, and no exception.
Raised(text) == [raised |-> TRUE, text |-> text]
NotRaised == [raised |-> FALSE, text |-> <<>>]

\* Line 19-20 and 27: some cell of the row, as a string, contains the word,
\* letter case ignored.
RowContains(row, word) ==
    \E c \in 1..Len(row) : ContainsNoCase(AsStr(row[c]), word)

\* Strategy 1 without lower(): "Category" and "Account" as they are written.
RECURSIVE Strategy1_CaseSensitive(_, _)
Strategy1_CaseSensitive(grid, idx) ==
    IF idx >= Len(grid) THEN -1
    ELSE IF \E c \in 1..Len(grid[idx + 1]) :
                \/ str_contains(AsStr(grid[idx + 1][c]), T_Category)
                \/ str_contains(AsStr(grid[idx + 1][c]), T_Account)
    THEN idx
    ELSE Strategy1_CaseSensitive(grid, idx + 1)

\* Lines 17-22, strategy 1: the index of the first row with a cell containing
\* "category" or "account", from row idx on; -1 when there is none.
RECURSIVE Strategy1(_, _)
Strategy1(grid, idx) ==
    IF idx >= Len(grid) THEN -1
    ELSE IF RowContains(grid[idx + 1], K_category) \/ RowContains(grid[idx + 1], K_account)
    THEN idx
    ELSE Strategy1(grid, idx + 1)

\* Strategy 2 without the test of line 29: always the row above.
RECURSIVE Strategy2_AlwaysAbove(_, _)
Strategy2_AlwaysAbove(grid, idx) ==
    IF idx >= Len(grid) THEN -1
    ELSE IF RowContains(grid[idx + 1], K_Gross_Sales)
    THEN idx - 1
    ELSE Strategy2_AlwaysAbove(grid, idx + 1)

\* Lines 26-33, strategy 2: the row above the first row with a cell containing
\* "Gross Sales", or that row when it is the first of the grid.
RECURSIVE Strategy2(_, _)
Strategy2(grid, idx) ==
    IF idx >= Len(grid) THEN -1
    ELSE IF RowContains(grid[idx + 1], K_Gross_Sales)
    THEN (IF idx > 0 THEN idx - 1 ELSE idx)
    ELSE Strategy2(grid, idx + 1)

\* Lines 16-33: header_row_idx.
LocateHeader(grid) ==
    LET found == Strategy1(grid, 0)
    IN  IF found = -1 THEN Strategy2(grid, 0) ELSE found

\* Lines 61-69: a header cell as a column label.  A whole number between 1900
\* and 2100 reads as its digits, anything else as its stripped string.
CanonicalLabel(c) ==
    LET text == Strip(AsStr(c))
        val  == ToNumeric(c)
    IN  IF val.k = "num" /\ val.n > 1900 /\ val.n < 2100 THEN StrOf(val.n) ELSE text

\* Lines 51-52: df['Category'] of a frame with two columns of that label is a
\* frame, which has no .str: an AttributeError.
CategoryLabelTwice(header) ==
    \E c \in 2..Len(header) : header[c] = Str(T_Category)

\* Line 55: dropna(how='all') keeps the rows with one cell at least that is
\* not missing.
DropEmptyRows(rows) ==
    SelectSeq(rows, LAMBDA row : \E c \in 1..Len(row) : row[c].k # "nan")

\* Lines 39-72 on a grid whose header row is known.
Normalize(grid, header_row_idx) ==
    LET new_header == grid[header_row_idx + 1]
        body == SubSeq(grid, header_row_idx + 2, Len(grid))
        cols == IF Len(new_header) > 0
                THEN <<Str(T_Category)>> \o Tail(new_header)
                ELSE new_header
        stripped == [r \in 1..Len(body) |->
                        IF Len(body[r]) > 0
                        THEN <<Str(Strip(AsStr(body[r][1])))>> \o Tail(body[r])
                        ELSE body[r]]
        kept == DropEmptyRows(stripped)
        new_cols == [c \in 1..Len(cols) |-> CanonicalLabel(cols[c])]
    IN  IF CategoryLabelTwice(new_header)
        THEN [exception |-> Raised(T_NoStrAccessor), df |-> NoTable]
        ELSE [exception |-> NotRaised, df |-> Frame(new_cols, kept)]

\* The message of the second except clause (line 80), which no exception
\* reaches: the bare text of the exception.
ParsingErrorMessage_Bare(e) == Message(e.text)

\* Line 77: the message of the except clause.
ParsingErrorMessage(e) == Message(T_ParsingErrorPrefix \o e.text)

\* The function.  load is what pd.read_excel does: the grid it returns or the
\* exception it raises.  The result is the pair (df, error); header_row_idx is
\* the local variable of that name, kept for the claims that speak of it.
clean_and_parse_data(load, grid) ==
    IF load.raised
    THEN [df |-> NoTable, error |-> ParsingErrorMessage(load),
          header_row_idx |-> -1, returned |-> TRUE]
    ELSE LET header_row_idx == LocateHeader(grid)
             normal == Normalize(grid, header_row_idx)
         IN  IF header_row_idx = -1
             THEN [df |-> NoTable, error |-> Message(T_HeaderNotFound),
                   header_row_idx |-> -1, returned |-> TRUE]
             ELSE IF normal.exception.raised
             THEN [df |-> NoTable, error |-> ParsingErrorMessage(normal.exception),
                   header_row_idx |-> header_row_idx, returned |-> TRUE]
             ELSE [df |-> normal.df, error |-> NoMessage,
                   header_row_idx |-> header_row_idx, returned |-> TRUE]

----------------------------------------------------------------------------
(* forecasting.generate_forecast *)

\* Lines 15-20: the int() of every column label that isdigit(), sorted.
RECURSIVE DigitLabels(_)
DigitLabels(columns) ==
    IF columns = <<>> THEN <<>>
    ELSE (IF IsDigit(Head(columns)) THEN <<IntOf(Head(columns))>> ELSE <<>>)
         \o DigitLabels(Tail(columns))
ExistingYears(df) == Sort(DigitLabels(df.columns))

\* Variant of EnsureNumeric: to_numeric without the fillna(0).
RECURSIVE EnsureNumeric_NoFill(_, _)
EnsureNumeric_NoFill(df, years) ==
    IF years = <<>> THEN df
    ELSE LET col_name == StrOf(Head(years))
             coerced  == [r \in 1..Len(df.rows) |-> ToNumeric(Cell(df, r, col_name))]
         IN  EnsureNumeric_NoFill(SetColumn(df, col_name, coerced), Tail(years))

\* Lines 23-25: every existing year column is made numeric, missing and
\* unparseable cells becoming 0.
RECURSIVE EnsureNumeric(_, _)
EnsureNumeric(df, years) ==
    IF years = <<>> THEN df
    ELSE LET col_name == StrOf(Head(years))
             coerced  == [r \in 1..Len(df.rows) |->
                             FillNa0(ToNumeric(Cell(df, r, col_name)))]
         IN  EnsureNumeric(SetColumn(df, col_name, coerced), Tail(years))

\* float(row[label]) inside the try of lines 61-70: none when the label is no
\* column of the frame (KeyError) or the cell is a text that is no number.
RowFloat(df, r, label) ==
    IF ~HasColumn(df, label) THEN [ok |-> FALSE, c |-> NaN]
    ELSE LET cell == Cell(df, r, label)
         IN  IF cell.k = "str" /\ ToNumeric(cell).k = "nan"
             THEN [ok |-> FALSE, c |-> NaN]
             ELSE [ok |-> TRUE, c |-> ToNumeric(cell)]

\* Variant of Prediction: a year without a column is read as 0 and the trend
\* is taken all the same.
Prediction_MissingAsZero(df, r, year) ==
    LET val_last == RowFloat(df, r, StrOf(year - 1))
        val_prev == RowFloat(df, r, StrOf(year - 2))
        last == IF val_last.ok /\ val_last.c.k = "num" THEN val_last.c.n ELSE 0
        prev == IF val_prev.ok /\ val_prev.c.k = "num" THEN val_prev.c.n ELSE 0
    IN  Num(last + (last - prev))

\* Lines 59-70: the new value of one row for one year; arithmetic on a missing
\* value gives a missing value, a failed read gives 0.0.
Prediction(df, r, year) ==
    LET val_last == RowFloat(df, r, StrOf(year - 1))
        val_prev == RowFloat(df, r, StrOf(year - 2))
    IN  IF ~(val_last.ok /\ val_prev.ok) THEN Num(0)
        ELSE IF val_last.c.k = "nan" \/ val_prev.c.k = "nan" THEN NaN
        ELSE Num(val_last.c.n + (val_last.c.n - val_prev.c.n))

\* Variant of PredictYears: every year is computed from the frame as it was
\* before the loop, and not from the columns the loop has added.
RECURSIVE PredictYears_FromBase(_, _, _, _)
PredictYears_FromBase(base, df, year, last) ==
    IF year > last THEN df
    ELSE PredictYears_FromBase(
             base,
             SetColumn(df, StrOf(year),
                       [r \in 1..Len(df.rows) |-> Prediction(base, r, year)]),
             year + 1, last)
PredictYears_FromInput(df, year, last) == PredictYears_FromBase(df, df, year, last)

\* Lines 43-72: one column per year, each computed from the frame as the
\* previous iterations left it.
RECURSIVE PredictYears(_, _, _)
PredictYears(df, year, last) ==
    IF year > last THEN df
    ELSE PredictYears(
             SetColumn(df, StrOf(year),
                       [r \in 1..Len(df.rows) |-> Prediction(df, r, year)]),
             year + 1, last)

\* Line 12: df_input.copy() is a new object holding the same labels and cells.
CopyFrame(df) == Frame(df.columns, df.rows)

\* Variant of generate_forecast: no year before start_year is forecast.
generate_forecast_FromStartYear(df_input, s_year, e_year) ==
    LET df0 == CopyFrame(df_input)
        existing_years == ExistingYears(df0)
        df == EnsureNumeric(df0, existing_years)
        last_actual_year == existing_years[Len(existing_years)]
    IN  IF Len(existing_years) < 2 THEN [arg |-> df_input, ret |-> df]
        ELSE IF e_year <= last_actual_year \/ e_year < s_year
        THEN [arg |-> df_input, ret |-> df]
        ELSE [arg |-> df_input,
              ret |-> PredictYears(df, last_actual_year + 1, e_year)]

\* The function: ret is the returned frame, arg the caller's df_input object
\* as the call leaves it.
generate_forecast(df_input, s_year, e_year) ==
    LET df0 == CopyFrame(df_input)
        existing_years == ExistingYears(df0)
        df == EnsureNumeric(df0, existing_years)
        last_actual_year == existing_years[Len(existing_years)]
    IN  IF Len(existing_years) < 2 THEN [arg |-> df_input, ret |-> df]
        ELSE IF e_year <= last_actual_year THEN [arg |-> df_input, ret |-> df]
        ELSE [arg |-> df_input,
              ret |-> PredictYears(df, last_actual_year + 1, e_year)]

----------------------------------------------------------------------------
(* forecasting.calculate_summary_metrics *)

\* Lines 124-128.
expense_keys ==
    <<K_Marketing, K_Salaries, K_Payroll, K_Travel, K_Hosting, K_Stationary,
      K_Rent, K_Utilities, K_Office, K_Professional, K_Insurance,
      K_Depreciation, K_Interest, K_Other_Operating>>

RECURSIVE SumSeq(_)
SumSeq(seq) == IF seq = <<>> THEN 0 ELSE Head(seq) + SumSeq(Tail(seq))

\* The amount of a cell of a year column.  The frames that reach the summaries
\* come out of generate_forecast, whose year columns hold numbers only.
Amount(c) == IF c.k = "num" THEN c.n ELSE 0

\* Line 82 (and 149): astype(str).str.lower().str.strip() of a category.
CleanOf(c) == Str(Strip(Lower(AsStr(c))))

\* Line 82: df['Category_Clean'] = ..., on the frame the caller passed.
WithCategoryClean(df) ==
    SetColumn(df, T_Category_Clean,
              [r \in 1..Len(df.rows) |-> CleanOf(Cell(df, r, T_Category))])

\* Line 84 (and 151): every column but Category and Category_Clean.
YearColumns(df) ==
    SelectSeq(df.columns, LAMBDA c : c # T_Category /\ c # T_Category_Clean)

\* The rows, in order, whose Category_Clean contains the lower-cased keyword.
RowsMatchingClean(df, k) ==
    SelectSeq([r \in 1..Len(df.rows) |-> r],
              LAMBDA r : Contains(Cell(df, r, T_Category_Clean).s, Lower(k)))

\* df[df['Category_Clean'].str.contains(k.lower(), na=False)][y].sum()
SumByCleanKeyword(df, y, k) ==
    LET rs == RowsMatchingClean(df, k)
    IN  SumSeq([i \in 1..Len(rs) |-> Amount(Cell(df, rs[i], y))])

\* Variant of summary_get_val: every matching row is added up.
summary_get_val_SumAll(df, y, key) ==
    LET matches == SelectSeq([r \in 1..Len(df.rows) |-> r],
                             LAMBDA r : ContainsNoCase(AsStr(Cell(df, r, T_Category)), key))
    IN  SumSeq([i \in 1..Len(matches) |-> Amount(Cell(df, matches[i], y))])

\* Lines 104-113, get_val of calculate_summary_metrics: the first row whose
\* Category contains the key, letter case ignored; 0.0 when there is none.
summary_get_val(df, y, key) ==
    LET matches == SelectSeq([r \in 1..Len(df.rows) |-> r],
                             LAMBDA r : ContainsNoCase(AsStr(Cell(df, r, T_Category)), key))
    IN  IF Len(matches) > 0 THEN Amount(Cell(df, matches[1], y)) ELSE 0

\* Lines 129-131.
RECURSIVE TotalExpenses(_, _, _)
TotalExpenses(df, y, keys) ==
    IF keys = <<>> THEN 0
    ELSE SumByCleanKeyword(df, y, Head(keys)) + TotalExpenses(df, y, Tail(keys))

\* Lines 98-137: the three metrics of one year.
SummaryOfYear(df, y) ==
    LET g_sales    == summary_get_val(df, y, K_Gross_Sales)
        discounts  == summary_get_val(df, y, K_Discounts)
        returns    == summary_get_val(df, y, K_Returns)
        cost_goods == summary_get_val(df, y, K_Cost_of_Goods_Sold)
        net_sales  == g_sales + discounts + returns
        g_profit   == net_sales - cost_goods
        total_exp  == TotalExpenses(df, y, expense_keys)
        net_profit == g_profit - total_exp
    IN  ("Gross Profit" :> g_profit) @@ ("Total Expenses" :> total_exp)
        @@ ("Net Profit" :> net_profit)

\* A view: the year columns and, per year column, its metrics.
View(years, cells) == [years |-> years, cells |-> cells]

\* Variant of calculate_summary_metrics: the year columns are every column
\* but Category of the frame as the caller passed it.
calculate_summary_metrics_YearsOfArgument(df_arg) ==
    LET df == WithCategoryClean(df_arg)
        years == SelectSeq(df_arg.columns, LAMBDA c : c # T_Category)
    IN  [arg |-> df,
         ret |-> View(years, [i \in 1..Len(years) |-> SummaryOfYear(df, years[i])])]

\* The function: ret is the view, arg the caller's frame as the call leaves
\* it (line 82 assigns the Category_Clean column to the frame it was given).
calculate_summary_metrics(df_arg) ==
    LET df == WithCategoryClean(df_arg)
        years == YearColumns(df)
    IN  [arg |-> df,
         ret |-> View(years, [i \in 1..Len(years) |-> SummaryOfYear(df, years[i])])]

----------------------------------------------------------------------------
(* forecasting.calculate_executive_summary *)

\* Variant of opex_keys: the list of calculate_summary_metrics, "Interest"
\* among its keywords.
opex_keys_WithInterest ==
    <<K_Marketing, K_Salaries, K_Payroll, K_Travel, K_Hosting, K_Stationary,
      K_Rent, K_Utilities, K_Office, K_Professional, K_Insurance,
      K_Depreciation, K_Interest, K_Other_Operating, K_Amortization, K_Bad_Debt>>

\* Lines 203-207.
opex_keys ==
    <<K_Marketing, K_Salaries, K_Payroll, K_Travel, K_Hosting, K_Stationary,
      K_Rent, K_Utilities, K_Office, K_Professional, K_Insurance,
      K_Depreciation, K_Other_Operating, K_Amortization, K_Bad_Debt>>

\* Lines 178-180.
get_val_exact(df, y, key_fragment) == SumByCleanKeyword(df, y, key_fragment)

\* Lines 171-176, get_val of calculate_executive_summary.
RECURSIVE exec_get_val(_, _, _)
exec_get_val(df, y, key_list) ==
    IF key_list = <<>> THEN 0
    ELSE SumByCleanKeyword(df, y, Head(key_list)) + exec_get_val(df, y, Tail(key_list))

\* Variant of gm_percent: the quotient without the test of line 195.
gm_percent_Unguarded(gross_margin, net_sales) ==
    [num |-> gross_margin * 100, den |-> net_sales]

\* Lines 195-198: the quotient gross_margin / net_sales * 100, kept as the
\* fraction num/den; 0.0 when net_sales is 0.
gm_percent(gross_margin, net_sales) ==
    IF net_sales # 0 THEN [num |-> gross_margin * 100, den |-> net_sales]
    ELSE [num |-> 0, den |-> 1]

\* Lines 168-231: the eight metrics of one year.
ExecutiveOfYear(df, y) ==
    LET net_sales == get_val_exact(df, y, K_Gross_Sales)
                     + get_val_exact(df, y, K_Sales_Discount)
                     + get_val_exact(df, y, K_Sales_Returns)
        direct_cost == get_val_exact(df, y, K_Cost_of_Goods_Sold)
        gross_margin == net_sales - direct_cost
        operating_expenses == exec_get_val(df, y, opex_keys)
        interest == get_val_exact(df, y, K_Interest_Expense)
        taxes == get_val_exact(df, y, K_Income_Tax)
        ebit == gross_margin - operating_expenses
    IN  ("Net Sales" :> net_sales) @@ ("Direct Cost" :> direct_cost)
        @@ ("Gross Margin (Profit)" :> gross_margin)
        @@ ("Gross Margin %" :> gm_percent(gross_margin, net_sales))
        @@ ("Operating Expenses" :> operating_expenses)
        @@ ("Interest" :> interest) @@ ("Taxes" :> taxes)
        @@ ("EBIT (Earnings before Interest and Taxes)" :> ebit)

\* The function: it works on a copy (line 147), and computes Category_Clean
\* only when the copy has no such column (lines 148-149).
calculate_executive_summary(df_arg) ==
    LET df0 == CopyFrame(df_arg)
        df == IF HasColumn(df0, T_Category_Clean) THEN df0 ELSE WithCategoryClean(df0)
        years == YearColumns(df)
    IN  [arg |-> df_arg,
         ret |-> View(years, [i \in 1..Len(years) |-> ExecutiveOfYear(df, years[i])])]

----------------------------------------------------------------------------
(* Inputs of the forecast *)

MaxRows == 2
MaxEndYear == 2027

\* Column layouts after the Category column: none, one or several year
\* columns, in and out of order, consecutive or not, with and without a column
\* whose label is no number.
ForecastLayouts ==
    { <<>>,
      <<StrOf(2025)>>,
      <<T_Notes>>,
      <<StrOf(2024), StrOf(2025)>>,
      <<StrOf(2025), StrOf(2024)>>,
      <<StrOf(2023), StrOf(2025)>>,
      <<StrOf(2025), T_Notes>>,
      <<StrOf(2024), T_Notes, StrOf(2025)>>,
      <<StrOf(2023), StrOf(2024), StrOf(2025)>> }

YearCells == {Num(100000), Num(120000), NaN, Str(T_na)}
NoteCells == {NaN, Str(T_na)}
FillerCells == {Num(5000), NaN}
RowNames == <<K_Gross_Sales, K_Rent, K_Marketing, K_Rent>>

CellsFor(label) == IF IsDigit(label) THEN YearCells ELSE NoteCells

\* The first row over a layout: its name, then any cell per column.
RowsOver(layout, name) ==
    { <<Str(name)>> \o cells :
        cells \in { f \in [1..Len(layout) -> YearCells \cup NoteCells] :
                       \A i \in 1..Len(layout) : f[i] \in CellsFor(layout[i]) } }

\* The rows below it: its name, then one and the same cell in every column.
FillerRows(layout, name) ==
    { <<Str(name)>> \o [i \in 1..Len(layout) |-> c] : c \in FillerCells }

RECURSIVE TablesOver(_, _)
TablesOver(layout, n) ==
    IF n = 0 THEN { <<>> }
    ELSE IF n = 1 THEN { <<row>> : row \in RowsOver(layout, RowNames[1]) }
    ELSE { Append(rows, row) :
             rows \in TablesOver(layout, n - 1),
             row \in FillerRows(layout, RowNames[((n - 1) % Len(RowNames)) + 1]) }

FramesOver(layout) ==
    { Frame(<<T_Category>> \o layout, rows) :
        rows \in UNION { TablesOver(layout, n) : n \in 0..MaxRows } }

ForecastInputs == UNION { FramesOver(layout) : layout \in ForecastLayouts }

StartYears == {2024, MaxEndYear + 1}
EndYears == 2024..MaxEndYear

NoView == <<>>
NoParse == [df |-> NoTable, error |-> NoMessage, header_row_idx |-> -1, returned |-> FALSE]

InitForecast ==
    /\ data_source \in ForecastInputs
    /\ df_raw = <<>>
    /\ load_raises = NotRaised
    /\ parsed = NoParse
    /\ start_year = 0
    /\ end_year = 0
    /\ forecast_df = NoTable
    /\ summary_df = NoView
    /\ exec_summary_df = NoView
    /\ arg_before = NoTable
    /\ arg_after = NoTable
    /\ pc = "input"

\* app.py line 112: forecast_df = generate_forecast(data_source, start_year,
\* end_year), with the two sidebar inputs drawn from the given sets.
ForecastCall(s_years, e_years) ==
    /\ pc = "input"
    /\ \E s \in s_years, e \in e_years :
         LET call == generate_forecast(data_source, s, e)
         IN  /\ start_year' = s
             /\ end_year' = e
             /\ forecast_df' = call.ret
             /\ arg_before' = data_source
             /\ arg_after' = call.arg
             /\ data_source' = call.arg
    /\ pc' = "forecast"
    /\ UNCHANGED <<df_raw, load_raises, parsed, summary_df, exec_summary_df>>

RunForecast == ForecastCall(StartYears, EndYears)

NextForecast == RunForecast

SpecForecast == InitForecast /\ [][NextForecast]_vars

----------------------------------------------------------------------------
(* Inputs of the pipeline: profit-and-loss tables with the years 2024, 2025 *)

MaxLines == 4

Line(category, v2024, v2025) == <<Str(category), Num(v2024), Num(v2025)>>

\* The lines a table is drawn from, in ledger order.  Two of them hold
\* "gross sales", two hold "discounts" (one of them without "sales discount"),
\* and one holds two expense keywords.
Ledger ==
    << Line(K_Gross_Sales, 100000, 120000),
       Line(T_OtherGrossSales, 40000, 44000),
       Line(T_LessSalesDiscounts, -3000, -2000),
       Line(K_Discounts, -700, -900),
       Line(T_LessSalesReturns, -1000, -1500),
       Line(K_Cost_of_Goods_Sold, 30000, 33000),
       Line(K_Marketing, 5000, 6000),
       Line(K_Rent, 12000, 12500),
       Line(T_OfficeRent, 800, 850),
       Line(K_Interest_Expense, 400, 450),
       Line(K_Income_Tax, 2100, 2300) >>

\* The lines of the ledger at the chosen places, top to bottom.
RECURSIVE Pick(_, _)
Pick(places, i) ==
    IF i > Len(Ledger) THEN <<>>
    ELSE (IF i \in places THEN <<Ledger[i]>> ELSE <<>>) \o Pick(places, i + 1)

Reverse(seq) == [i \in 1..Len(seq) |-> seq[Len(seq) + 1 - i]]

LedgerInputs ==
    LET chosen == { Pick(places, 1) :
                      places \in { P \in SUBSET (1..Len(Ledger)) : Cardinality(P) <= MaxLines } }
    IN  { Frame(<<T_Category, StrOf(2024), StrOf(2025)>>, rows) :
            rows \in chosen \cup { Reverse(rows) : rows \in chosen } }

Init ==
    /\ data_source \in LedgerInputs
    /\ df_raw = <<>>
    /\ load_raises = NotRaised
    /\ parsed = NoParse
    /\ start_year = 0
    /\ end_year = 0
    /\ forecast_df = NoTable
    /\ summary_df = NoView
    /\ exec_summary_df = NoView
    /\ arg_before = NoTable
    /\ arg_after = NoTable
    /\ pc = "input"

\* app.py line 113: summary_df = calculate_summary_metrics(forecast_df)
RunSummary ==
    /\ pc = "forecast"
    /\ LET call == calculate_summary_metrics(forecast_df)
       IN  /\ summary_df' = call.ret
           /\ arg_before' = forecast_df
           /\ arg_after' = call.arg
           /\ forecast_df' = call.arg
    /\ pc' = "summary"
    /\ UNCHANGED <<df_raw, load_raises, parsed, data_source, start_year, end_year,
                   exec_summary_df>>

\* app.py line 114: exec_summary_df = calculate_executive_summary(forecast_df)
RunExecutive ==
    /\ pc = "summary"
    /\ LET call == calculate_executive_summary(forecast_df)
       IN  /\ exec_summary_df' = call.ret
           /\ arg_before' = forecast_df
           /\ arg_after' = call.arg
           /\ forecast_df' = call.arg
    /\ pc' = "exec"
    /\ UNCHANGED <<df_raw, load_raises, parsed, data_source, start_year, end_year,
                   summary_df>>

\* The pipeline's forecast: the default start year, and an end year that is
\* the last actual year or lies one or two years beyond it.
RunPipelineForecast == ForecastCall({2024}, 2025..(MaxEndYear - 1))

Next == RunPipelineForecast \/ RunSummary \/ RunExecutive

Spec == Init /\ [][Next]_vars

----------------------------------------------------------------------------
(* Inputs of the loader: headerless grids three cells wide *)

MaxGridRows == 3

GridRows ==
    { <<Str(T_ProfitAndLossAccount), NaN, NaN>>,
      <<Str(T_Category), Num(2024), Num(2025)>>,
      <<NaN, Str(T_CATEGORY), Num(2024)>>,
      <<Str(T_Account), Str(T_Category), Num(2025)>>,
      <<NaN, Num(2024), Num(2025)>>,
      <<Str(K_Gross_Sales), Num(100000), Num(120000)>>,
      <<Str(T_OtherGrossSales), Num(40000), NaN>>,
      <<Str(T_RentPadded), Num(12000), NaN>>,
      <<NaN, NaN, NaN>> }

RECURSIVE GridsOf(_)
GridsOf(n) ==
    IF n = 0 THEN { <<>> }
    ELSE { Append(g, row) : g \in GridsOf(n - 1), row \in GridRows }

Grids == UNION { GridsOf(n) : n \in 0..MaxGridRows }

\* What read_excel can raise: an error with a text, an error without one.
LoadErrors == { Raised(T_WorksheetNotFound), Raised(<<>>) }

InitParse ==
    /\ \/ load_raises = NotRaised /\ df_raw \in Grids
       \/ load_raises \in LoadErrors /\ df_raw = <<>>
    /\ parsed = NoParse
    /\ data_source = NoTable
    /\ start_year = 0
    /\ end_year = 0
    /\ forecast_df = NoTable
    /\ summary_df = NoView
    /\ exec_summary_df = NoView
    /\ arg_before = NoTable
    /\ arg_after = NoTable
    /\ pc = "upload"

\* app.py lines 83-89: df, error = clean_and_parse_data(uploaded_file); an
\* error (a message that is not empty) is shown, and otherwise the table
\* becomes the data source.
UploadFile ==
    /\ pc = "upload"
    /\ LET result == clean_and_parse_data(load_raises, df_raw)
           error_shown == ~result.error.none /\ result.error.text # <<>>
       IN  /\ parsed' = result
           /\ data_source' = IF error_shown THEN data_source ELSE result.df
    /\ pc' = "input"
    /\ UNCHANGED <<df_raw, load_raises, start_year, end_year, forecast_df,
                   summary_df, exec_summary_df, arg_before, arg_after>>

NextParse == UploadFile

SpecParse == InitParse /\ [][NextParse]_vars

----------------------------------------------------------------------------
(* The manual-entry table: get_empty_template with values entered *)

\* analyze_data.get_empty_template, lines 84-107: the categories.
categories ==
    << K_Gross_Sales, T_LessSalesDiscounts, T_LessSalesReturns,
       K_Cost_of_Goods_Sold, T_MarketingAdvertising, T_SalariesWages,
       T_PayrollBenefitsTaxes, T_TravelEntertainment, T_WebHosting,
       K_Stationary, K_Rent, K_Utilities, T_OfficeSupplies, T_ProfessionalFees,
       K_Insurance, K_Depreciation, K_Interest_Expense,
       T_OtherOperatingExpenses(1), T_OtherOperatingExpenses(2),
       T_OtherOperatingExpenses(3), T_OtherOperatingExpenses(4),
       T_OtherOperatingExpenses(5) >>

\* Line 108: the table, every value 0.0.
get_empty_template ==
    Frame(<<T_Category, StrOf(2024), StrOf(2025)>>,
          [r \in 1..Len(categories) |-> <<Str(categories[r]), Num(0), Num(0)>>])

\* Values entered in a year column, one per row: nothing, an amount in one
\* row alone (positive or negative), or a different amount in every row, no
\* two sets of rows adding up to the same.
RECURSIVE PowerOfTwo(_)
PowerOfTwo(n) == IF n = 0 THEN 1 ELSE 2 * PowerOfTwo(n - 1)

EnteredAmounts == { 1000, -250 }

EnteredColumns ==
    { [r \in 1..Len(categories) |-> 0],
      [r \in 1..Len(categories) |-> PowerOfTwo(r - 1)] }
    \cup { [r \in 1..Len(categories) |-> IF r = one THEN a ELSE 0] :
              one \in 1..Len(categories), a \in EnteredAmounts }

LaterColumns ==
    { [r \in 1..Len(categories) |-> 0],
      [r \in 1..Len(categories) |-> 700 * r] }

\* app.py lines 95-99: the template as the data editor returns it.
TemplateInputs ==
    { Frame(get_empty_template.columns,
            [r \in 1..Len(categories) |->
                <<Str(categories[r]), Num(v2024[r]), Num(v2025[r])>>]) :
         v2024 \in EnteredColumns, v2025 \in LaterColumns }

InitTemplate ==
    /\ df_raw = <<>>
    /\ load_raises = NotRaised
    /\ parsed = NoParse
    /\ data_source \in TemplateInputs
    /\ start_year = 0
    /\ end_year = 0
    /\ forecast_df = NoTable
    /\ summary_df = NoView
    /\ exec_summary_df = NoView
    /\ arg_before = NoTable
    /\ arg_after = NoTable
    /\ pc = "input"

SpecTemplate == InitTemplate /\ [][Next]_vars

----------------------------------------------------------------------------
(* Calls of the two views on one table object, in any order *)

MaxViewRows == 2

\* The lines a table of these calls is made of, and the categories an edit of
\* the table writes.
ViewLedger ==
    << Ledger[1], Ledger[6], Ledger[8], Ledger[10],
       Line(T_InterestExpenseOfficeLoan, 900, 950) >>
EditTexts == { K_Income_Tax }

RECURSIVE LinesOf(_)
LinesOf(n) ==
    IF n = 0 THEN { <<>> }
    ELSE { Append(rows, ViewLedger[i]) :
              rows \in LinesOf(n - 1), i \in 1..Len(ViewLedger) }

ViewInputs ==
    { Frame(<<T_Category, StrOf(2024), StrOf(2025)>>, rows) :
         rows \in UNION { LinesOf(n) : n \in 0..MaxViewRows } }

InitViews ==
    /\ df_raw = <<>>
    /\ load_raises = NotRaised
    /\ parsed = NoParse
    /\ data_source \in ViewInputs
    /\ start_year = 2024
    /\ end_year = 2026
    /\ forecast_df = NoTable
    /\ summary_df = NoView
    /\ exec_summary_df = NoView
    /\ arg_before = NoTable
    /\ arg_after = NoTable
    /\ pc = "table"

\* summary_df = calculate_summary_metrics(table): the call writes to the
\* table it is given.
CallSummary ==
    /\ pc \in {"table", "summary", "exec", "edit", "exec_forecast"}
    /\ LET call == calculate_summary_metrics(data_source)
       IN  /\ summary_df' = call.ret
           /\ data_source' = call.arg
           /\ arg_before' = data_source
           /\ arg_after' = call.arg
    /\ pc' = "summary"
    /\ UNCHANGED <<df_raw, load_raises, parsed, start_year, end_year,
                   forecast_df, exec_summary_df>>

\* exec_summary_df = calculate_executive_summary(table).
CallExecutive ==
    /\ pc \in {"table", "summary", "exec", "edit", "exec_forecast"}
    /\ LET call == calculate_executive_summary(data_source)
       IN  /\ exec_summary_df' = call.ret
           /\ data_source' = call.arg
           /\ arg_before' = data_source
           /\ arg_after' = call.arg
    /\ pc' = "exec"
    /\ UNCHANGED <<df_raw, load_raises, parsed, start_year, end_year,
                   forecast_df, summary_df>>

NextCalls == CallSummary \/ CallExecutive

SpecCalls == InitViews /\ [][NextCalls]_vars

\* The frame with the cell of row r under the label replaced.
SetCell(df, r, label, c) ==
    [df EXCEPT !.rows[r][ColumnIndex(df, label)] = c]

\* The user of the table object writes another category into one of its
\* rows (app.py line 97, st.data_editor, or any df.loc[r, 'Category'] = ...):
\* the cell changes and no other cell does.
EditCategory ==
    /\ pc \in {"table", "summary", "exec", "edit", "exec_forecast"}
    /\ \E r \in 1..Len(data_source.rows), t \in EditTexts :
         /\ Cell(data_source, r, T_Category) # Str(t)
         /\ data_source' = SetCell(data_source, r, T_Category, Str(t))
    /\ pc' = "edit"
    /\ UNCHANGED <<df_raw, load_raises, parsed, start_year, end_year, forecast_df,
                   summary_df, exec_summary_df, arg_before, arg_after>>

\* app.py line 112 on the table object: the forecast of the table.
CallForecast ==
    /\ pc \in {"table", "summary", "exec", "edit", "exec_forecast"}
    /\ LET call == generate_forecast(data_source, start_year, end_year)
       IN  /\ forecast_df' = call.ret
           /\ data_source' = call.arg
           /\ arg_before' = data_source
           /\ arg_after' = call.arg
    /\ pc' = "forecast_table"
    /\ UNCHANGED <<df_raw, load_raises, parsed, start_year, end_year,
                   summary_df, exec_summary_df>>

\* app.py line 114: the executive view of the forecast.
CallExecutiveOnForecast ==
    /\ pc = "forecast_table"
    /\ LET call == calculate_executive_summary(forecast_df)
       IN  /\ exec_summary_df' = call.ret
           /\ forecast_df' = call.arg
    /\ pc' = "exec_forecast"
    /\ UNCHANGED <<df_raw, load_raises, parsed, data_source, start_year, end_year,
                   summary_df, arg_before, arg_after>>

NextViews ==
    \/ CallSummary
    \/ CallExecutive
    \/ EditCategory
    \/ CallForecast
    \/ CallExecutiveOnForecast

\* The tables whose categories are edited: one row or none.
EditInputs == { t \in ViewInputs : Len(t.rows) <= 1 }

InitEdits ==
    /\ InitViews
    /\ data_source \in EditInputs

SpecViews == InitEdits /\ [][NextViews]_vars

----------------------------------------------------------------------------
(* What the claims speak of, read off the frames alone *)

\* The years a frame has a numeric-labelled column for.
YearSet(df) ==
    { IntOf(df.columns[i]) : i \in { j \in 1..Len(df.columns) : IsDigit(df.columns[j]) } }
MaxOf(S) == CHOOSE m \in S : \A x \in S : x <= m
LastActual(df) == MaxOf(YearSet(df))
CellOf(df, r, label) == df.rows[r][ColumnIndex(df, label)]

\* The call of generate_forecast has returned.
Forecasted == pc = "forecast"
\* ... and it had two year columns at least and an end_year beyond the last one.
Extends ==
    /\ Forecasted
    /\ Cardinality(YearSet(arg_before)) >= 2
    /\ end_year > LastActual(arg_before)
\* ... or it had not.
NoOpCase ==
    /\ Forecasted
    /\ \/ Cardinality(YearSet(arg_before)) < 2
       \/ end_year <= LastActual(arg_before)

\* A cell of a year column as the forecast's first step leaves it: a number
\* stays, a missing or unparseable cell reads 0.
AsNumberOrZero(c) == IF c.k = "num" THEN c ELSE Num(0)

\* Every column of the input is, at its place, in the result, each cell
\* the input's cell (a year column's cell: as a number, or 0).
InputKeptCoerced ==
    /\ Len(forecast_df.columns) >= Len(arg_before.columns)
    /\ SubSeq(forecast_df.columns, 1, Len(arg_before.columns)) = arg_before.columns
    /\ Len(forecast_df.rows) = Len(arg_before.rows)
    /\ \A r \in 1..Len(arg_before.rows) : \A i \in 1..Len(arg_before.columns) :
          forecast_df.rows[r][i] =
              IF IsDigit(arg_before.columns[i])
              THEN AsNumberOrZero(arg_before.rows[r][i])
              ELSE arg_before.rows[r][i]

\* The same with every cell equal to the input's cell.
InputKeptExactly ==
    /\ Len(forecast_df.columns) >= Len(arg_before.columns)
    /\ SubSeq(forecast_df.columns, 1, Len(arg_before.columns)) = arg_before.columns
    /\ Len(forecast_df.rows) = Len(arg_before.rows)
    /\ \A r \in 1..Len(arg_before.rows) : \A i \in 1..Len(arg_before.columns) :
          forecast_df.rows[r][i] = arg_before.rows[r][i]

\* The labels of the years first..last, ascending.
YearLabels(first, last) == [i \in 1..(last - first + 1) |-> StrOf(first + i - 1)]

C2_Momentum ==
    Extends =>
        LET Y == LastActual(arg_before) IN
        (Y - 1) \in YearSet(arg_before) =>
            \A r \in 1..Len(arg_before.rows) :
                LET v1 == CellOf(arg_before, r, StrOf(Y - 1))
                    v2 == CellOf(arg_before, r, StrOf(Y))
                IN  (v1.k = "num" /\ v2.k = "num") =>
                        \A k \in 1..(end_year - Y) :
                            /\ HasColumn(forecast_df, StrOf(Y + k))
                            /\ CellOf(forecast_df, r, StrOf(Y + k))
                                   = Num(v2.n + k * (v2.n - v1.n))

\* 100000 in 2024 and 120000 in 2025, forecast to 2027: 140000 and 160000.
C2_Witness ==
    /\ Extends
    /\ end_year = 2027
    /\ HasColumn(arg_before, StrOf(2024))
    /\ LastActual(arg_before) = 2025
    /\ Len(arg_before.rows) >= 1
    /\ CellOf(arg_before, 1, StrOf(2024)) = Num(100000)
    /\ CellOf(arg_before, 1, StrOf(2025)) = Num(120000)
    /\ CellOf(forecast_df, 1, StrOf(2026)) = Num(140000)
    /\ CellOf(forecast_df, 1, StrOf(2027)) = Num(160000)

\* C3 as stated: with fewer than two year columns, or end_year <= last_actual,
\* the result equals the input: same columns, same order, every cell the
\* input's cell.
C3_NoOpExactly ==
    NoOpCase => (forecast_df.columns = arg_before.columns /\ InputKeptExactly)

\* C3 as amended: in those cases the result has the input's columns in the
\* input's order and no other; every cell of a column whose label is no number
\* is the input's cell, and every cell of a numeric-labelled column is the
\* input's cell when that is a number and 0 when it is missing or no number.
C3_NoOpCoerced ==
    NoOpCase => (forecast_df.columns = arg_before.columns /\ InputKeptCoerced)

\* One year column only, holding a missing cell, and an end_year beyond it.
C3_Witness ==
    /\ NoOpCase
    /\ YearSet(arg_before) = {2025}
    /\ end_year = 2027
    /\ HasColumn(arg_before, T_Notes)
    /\ Len(arg_before.rows) >= 1
    /\ CellOf(arg_before, 1, StrOf(2025)) = NaN
    /\ CellOf(forecast_df, 1, StrOf(2025)) = Num(0)
    /\ forecast_df.columns = arg_before.columns

\* C4 as stated: an extending call returns the input's columns in their order,
\* every original cell unchanged, followed by one column per year
\* last_actual+1..end_year, ascending, and nothing else.
C4_AppendExactly ==
    Extends =>
        /\ forecast_df.columns =
               arg_before.columns \o YearLabels(LastActual(arg_before) + 1, end_year)
        /\ InputKeptExactly

\* C4 as amended: the same, except that a cell of an existing numeric-labelled
\* column that is missing or no number is 0 in the result.
C4_AppendCoerced ==
    Extends =>
        /\ forecast_df.columns =
               arg_before.columns \o YearLabels(LastActual(arg_before) + 1, end_year)
        /\ InputKeptCoerced

\* 2024, Notes, 2025 extended by 2026 and 2027, with a text cell in a year
\* column and the Notes column kept as it was.
C4_Witness ==
    /\ Extends
    /\ arg_before.columns = <<T_Category, StrOf(2024), T_Notes, StrOf(2025)>>
    /\ forecast_df.columns =
           <<T_Category, StrOf(2024), T_Notes, StrOf(2025), StrOf(2026), StrOf(2027)>>
    /\ Len(arg_before.rows) = 2
    /\ arg_before.rows[1][2] = Str(T_na)
    /\ forecast_df.rows[1][2] = Num(0)
    /\ forecast_df.rows[1][3] = arg_before.rows[1][3]
    /\ arg_before.rows[1][3] = Str(T_na)

----------------------------------------------------------------------------
(* The summary views *)

\* C5: no core operation changes the table it is given: when
\* generate_forecast, calculate_summary_metrics or calculate_executive_summary
\* has returned, the table passed in has the columns and the cells it had
\* before the call.
C5_InputNotMutated ==
    pc \in {"forecast", "summary", "exec"} => arg_after = arg_before

\* calculate_summary_metrics has returned, and the table it was given.
Summarized == pc = "summary"
SummaryInput == arg_before

\* The year columns of a table: all but the category columns, in order.
YearColumnsOf(df) ==
    SelectSeq(df.columns, LAMBDA c : c \notin {T_Category, T_Category_Clean})

\* Whether a row's category contains a keyword, letter case ignored.
RowHas(df, r, kw) == Contains(Lower(CellOf(df, r, T_Category).s), Lower(kw))

\* The value of the first row, in table order, whose category contains the
\* keyword; 0 when no row does.
FirstMatch(df, y, kw) ==
    IF \E r \in 1..Len(df.rows) : RowHas(df, r, kw)
    THEN LET first == CHOOSE r \in 1..Len(df.rows) :
                          /\ RowHas(df, r, kw)
                          /\ \A q \in 1..(r - 1) : ~RowHas(df, q, kw)
         IN  CellOf(df, first, y).n
    ELSE 0

\* The fourteen expense keywords of the claim.
ExpenseKeywords ==
    { K_Marketing, K_Salaries, K_Payroll, K_Travel, K_Hosting, K_Stationary,
      K_Rent, K_Utilities, K_Office, K_Professional, K_Insurance,
      K_Depreciation, K_Interest, K_Other_Operating }

\* Every row counted as many times as it has expense keywords.
RECURSIVE ExpensesUpTo(_, _, _)
ExpensesUpTo(df, y, r) ==
    IF r = 0 THEN 0
    ELSE ExpensesUpTo(df, y, r - 1)
         + CellOf(df, r, y).n * Cardinality({ kw \in ExpenseKeywords : RowHas(df, r, kw) })

GrossProfitOf(df, y) ==
    FirstMatch(df, y, K_Gross_Sales) + FirstMatch(df, y, K_Discounts)
    + FirstMatch(df, y, K_Returns) - FirstMatch(df, y, K_Cost_of_Goods_Sold)

\* C6: for every table and every year column, Gross Sales, Discounts, Returns
\* and Cost of Goods Sold are the value of the first row holding the keyword
\* (0.0 without one), Gross Profit = gross_sales + discounts + returns - cost,
\* Total Expenses adds every row once per expense keyword it holds, and Net
\* Profit = Gross Profit - Total Expenses.
C6_SummaryMetrics ==
    Summarized =>
        /\ summary_df.years = YearColumnsOf(SummaryInput)
        /\ Len(summary_df.cells) = Len(summary_df.years)
        /\ \A i \in 1..Len(summary_df.years) :
             LET y == summary_df.years[i]
                 row_count == Len(SummaryInput.rows)
             IN  /\ summary_df.cells[i]["Gross Profit"] = GrossProfitOf(SummaryInput, y)
                 /\ summary_df.cells[i]["Total Expenses"]
                        = ExpensesUpTo(SummaryInput, y, row_count)
                 /\ summary_df.cells[i]["Net Profit"]
                        = GrossProfitOf(SummaryInput, y)
                          - ExpensesUpTo(SummaryInput, y, row_count)

\* Gross Sales 100000, Cost of Goods Sold 30000, Marketing 5000, Rent 12000 in
\* 2024: 70000, 17000, 53000.
C6_Witness ==
    /\ Summarized
    /\ { SummaryInput.rows[r] : r \in 1..Len(SummaryInput.rows) }
           = { Ledger[1], Ledger[6], Ledger[7], Ledger[8] }
    /\ summary_df.years[1] = StrOf(2024)
    /\ summary_df.cells[1]["Gross Profit"] = 70000
    /\ summary_df.cells[1]["Total Expenses"] = 17000
    /\ summary_df.cells[1]["Net Profit"] = 53000

\* C7: for every table and every year column the executive view's Net Sales
\* is the summary's net_sales (gross_sales + discounts + returns), its Direct
\* Cost the summary's cost_of_goods_sold and its Gross Margin (Profit) the
\* summary's Gross Profit.
C7_SameDerivation ==
    pc = "exec" =>
        /\ exec_summary_df.years = summary_df.years
        /\ \A i \in 1..Len(exec_summary_df.years) :
             LET y == exec_summary_df.years[i] IN
             /\ exec_summary_df.cells[i]["Net Sales"]
                    = FirstMatch(arg_before, y, K_Gross_Sales)
                      + FirstMatch(arg_before, y, K_Discounts)
                      + FirstMatch(arg_before, y, K_Returns)
             /\ exec_summary_df.cells[i]["Direct Cost"]
                    = FirstMatch(arg_before, y, K_Cost_of_Goods_Sold)
             /\ exec_summary_df.cells[i]["Gross Margin (Profit)"]
                    = summary_df.cells[i]["Gross Profit"]

----------------------------------------------------------------------------
(* The table loader *)

\* The loader has returned, having read a grid.
Located == parsed.returned /\ ~load_raises.raised

\* The text of a cell of the grid, in lower case.
GridText(r, c) == str_lower(AsStr(df_raw[r + 1][c]))

\* Row r (counted from 0) of the grid has a cell containing the word.
RowHasWord(r, word) ==
    \E c \in 1..Len(df_raw[r + 1]) : str_contains(GridText(r, c), str_lower(word))

\* Row r of the grid has a cell equal to "Category" in some letter case.
RowHasCategoryCell(r) ==
    \E c \in 1..Len(df_raw[r + 1]) : GridText(r, c) = K_category

\* Row r of the grid has a cell containing "category" or "account".
RowHasLabelWord(r) == RowHasWord(r, K_category) \/ RowHasWord(r, K_account)

GridRowIndexes == 0..(Len(df_raw) - 1)

\* r is the first row of the grid for which P holds.
FirstRow(r, P(_)) ==
    /\ r \in GridRowIndexes
    /\ P(r)
    /\ \A q \in 0..(r - 1) : ~P(q)

RowHasGrossSales(r) == RowHasWord(r, K_Gross_Sales)

\* C8 as stated: for every grid with a row that has a cell equal to
\* "Category" in any letter case, the header row clean_and_parse_data selects
\* is that row (the first of them), whatever the other rows and cells hold.
C8_CategoryRowSelected ==
    Located =>
        \A r \in GridRowIndexes :
            FirstRow(r, RowHasCategoryCell) => parsed.header_row_idx = r

\* C8: for every grid with a row that has a cell containing "category" or
\* "account" in any letter case, the header row clean_and_parse_data selects
\* is the first such row; a row with a cell equal to "Category" is therefore
\* selected exactly when no row above it has such a cell.
C8_FirstLabelRowSelected ==
    Located =>
        \A r \in GridRowIndexes :
            /\ FirstRow(r, RowHasLabelWord) => parsed.header_row_idx = r
            /\ FirstRow(r, RowHasCategoryCell) =>
                  (parsed.header_row_idx = r <=> \A q \in 0..(r - 1) : ~RowHasLabelWord(q))

\* A title row, then the row with "CATEGORY" in its second cell, then data:
\* the title has no label word and row 1 is selected.
C8_Witness ==
    /\ Located
    /\ Len(df_raw) = 3
    /\ ~RowHasLabelWord(0)
    /\ df_raw[2][2] = Str(T_CATEGORY)
    /\ RowHasGrossSales(2)
    /\ parsed.header_row_idx = 1

\* C9: for every grid in which no cell contains "category" or "account" and
\* the first row with a cell containing "gross sales" is row k, the selected
\* header row is k-1 when k > 0 and row 0 when k = 0; and when some row has a
\* cell containing "category" or "account" the selected row is such a row,
\* wherever "gross sales" stands.
C9_RowAboveGrossSales ==
    Located =>
        /\ (\A q \in GridRowIndexes : ~RowHasLabelWord(q)) =>
              \A k \in GridRowIndexes :
                  FirstRow(k, RowHasGrossSales) =>
                      parsed.header_row_idx = IF k > 0 THEN k - 1 ELSE 0
        /\ (\E q \in GridRowIndexes : RowHasLabelWord(q)) =>
              /\ parsed.header_row_idx \in GridRowIndexes
              /\ RowHasLabelWord(parsed.header_row_idx)

\* Two rows without any signal, then "Gross Sales": the row above is selected.
C9_Witness ==
    /\ Located
    /\ Len(df_raw) = 3
    /\ \A q \in GridRowIndexes : ~RowHasLabelWord(q)
    /\ FirstRow(2, RowHasGrossSales)
    /\ parsed.header_row_idx = 1
    /\ ~parsed.df.none

\* The header row, once located, has "Category" as the label of a column
\* other than the first: the normalization raises.
NormalizationRaises ==
    /\ Located
    /\ parsed.header_row_idx \in GridRowIndexes
    /\ \E c \in 2..Len(df_raw[parsed.header_row_idx + 1]) :
           df_raw[parsed.header_row_idx + 1][c] = Str(T_Category)

\* C10: clean_and_parse_data returns a pair with exactly one null component,
\* a table without error or no table with a message that is not empty; for a
\* grid without "category", "account" and "gross sales" it returns no table
\* and the header-not-found message, which names the three signals; and an
\* exception of the loading or of the normalization comes back as no table
\* and a message.
C10_ExactlyOneNull ==
    parsed.returned =>
        /\ parsed.df.none # parsed.error.none
        /\ ~parsed.error.none => parsed.error.text # <<>>
        /\ (/\ ~load_raises.raised
            /\ \A q \in GridRowIndexes : ~RowHasLabelWord(q) /\ ~RowHasGrossSales(q))
              => /\ parsed.df.none
                 /\ parsed.error = Message(T_HeaderNotFound)
                 /\ str_contains(parsed.error.text, T_Category)
                 /\ str_contains(parsed.error.text, T_Account)
                 /\ str_contains(parsed.error.text, K_Gross_Sales)
        /\ (load_raises.raised \/ NormalizationRaises)
              => /\ parsed.df.none
                 /\ ~parsed.error.none
                 /\ data_source.none

\* read_excel raises an exception whose text is empty: no table, and a
\* message all the same.
C10_Witness ==
    /\ parsed.returned
    /\ load_raises = Raised(<<>>)
    /\ parsed.df.none
    /\ parsed.error.text = T_ParsingErrorPrefix

\* The loader has returned a table.
Normalized == Located /\ ~parsed.df.none

\* The rows of the grid strictly below the selected header row.
BodyRows == SubSeq(df_raw, parsed.header_row_idx + 2, Len(df_raw))

\* Some cell of the grid row is not missing.
HasValue(row) == \E c \in 1..Len(row) : row[c].k # "nan"

\* C11: for every grid and selected header row h the normalized table holds,
\* in source order, exactly the rows strictly below h that have at least one
\* cell that is not empty (their first cell as its stripped text, the other
\* cells as they are); a body row with every cell missing is not in it.
C11_EmptyRowsDropped ==
    Normalized =>
        LET kept == SelectSeq(BodyRows, HasValue)
        IN  /\ Len(parsed.df.rows) = Len(kept)
            /\ \A i \in 1..Len(kept) :
                   /\ parsed.df.rows[i][1] = Str(str_strip(AsStr(kept[i][1])))
                   /\ Tail(parsed.df.rows[i]) = Tail(kept[i])

----------------------------------------------------------------------------
(* Repeated calls of the views *)

\* The views as a call has returned them, or none yet.
HasSummary == summary_df # NoView
HasExecutive == exec_summary_df # NoView

\* C12: a call of calculate_summary_metrics on a table on which both views
\* may have been called before, in any order and any number of times, and
\* whose categories and values nobody changed, returns the view the earlier
\* call returned (same year columns, same metrics, same values); and so does
\* a call of calculate_executive_summary.
C12_SameViewAgain ==
    [][ /\ (pc' = "summary" /\ HasSummary) => summary_df' = summary_df
        /\ (pc' = "exec" /\ HasExecutive) => exec_summary_df' = exec_summary_df ]_vars

\* calculate_executive_summary called on a table that has been through
\* calculate_summary_metrics (it carries Category_Clean), after an earlier
\* call of each of the two, Rent 12000 counted as operating expense.
C12_Witness ==
    /\ pc = "exec"
    /\ HasSummary
    /\ HasColumn(arg_before, T_Category_Clean)
    /\ Len(arg_before.rows) = 2
    /\ exec_summary_df.years = <<StrOf(2024), StrOf(2025)>>
    /\ exec_summary_df.cells[1]["Operating Expenses"] = 12000
    /\ exec_summary_df.cells[1]["Net Sales"] = 100000

----------------------------------------------------------------------------
(* The parameters of the forecast *)

\* Values of start_year, before, among and after the years of the tables.
StartYearValues == 2022..2028

\* C13: for every table, every end_year and every two values of start_year
\* generate_forecast returns equal tables, same columns and same values: the
\* table a call has returned is the table the call returns with any other
\* start_year.
C13_StartYearIgnored ==
    Forecasted =>
        \A s \in StartYearValues :
            generate_forecast(arg_before, s, end_year).ret = forecast_df

\* A call with a start_year beyond end_year 2026 on a table of 2024 and
\* 2025: the year 2026, before start_year, is forecast all the same.
C13_Witness ==
    /\ Extends
    /\ start_year > end_year
    /\ end_year = 2026
    /\ YearSet(arg_before) = {2024, 2025}
    /\ YearSet(forecast_df) = {2024, 2025, 2026}

----------------------------------------------------------------------------
(* The executive view *)

\* calculate_executive_summary has returned its view of the forecast.
ExecutiveDone == pc = "exec"

\* The metric of the executive view for its i-th year column.
Exec(i, metric) == exec_summary_df.cells[i][metric]

\* C14: for every year of the executive view in which Net Sales is exactly
\* 0, Gross Margin % is 0.0 (the call returns, no division is attempted);
\* for every year in which Net Sales is not 0, Gross Margin % is Gross Margin
\* / Net Sales * 100, the quotient of Gross Margin * 100 by Net Sales.
C14_GrossMarginPercent ==
    ExecutiveDone =>
        \A i \in 1..Len(exec_summary_df.years) :
            LET pct == Exec(i, "Gross Margin %") IN
            /\ pct.den # 0
            /\ Exec(i, "Net Sales") = 0 => pct.num = 0
            /\ Exec(i, "Net Sales") # 0 =>
                  /\ pct.num = Exec(i, "Gross Margin (Profit)") * 100
                  /\ pct.den = Exec(i, "Net Sales")

\* A table with Cost of Goods Sold and no sales line: Net Sales 0, Gross
\* Margin -30000, Gross Margin % 0.
C14_Witness ==
    /\ ExecutiveDone
    /\ Len(exec_summary_df.years) >= 1
    /\ Exec(1, "Net Sales") = 0
    /\ Exec(1, "Gross Margin (Profit)") = -30000
    /\ Exec(1, "Gross Margin %").num = 0

----------------------------------------------------------------------------
(* The views of a table whose categories change *)

\* A freshly built table holding the Category and year values of df: its
\* columns but Category_Clean, which no built table has.
FreshTable(df) ==
    LET keep == SelectSeq([c \in 1..Len(df.columns) |-> c],
                          LAMBDA c : df.columns[c] # T_Category_Clean)
    IN  Frame([i \in 1..Len(keep) |-> df.columns[keep[i]]],
              [r \in 1..Len(df.rows) |->
                  [i \in 1..Len(keep) |-> df.rows[r][keep[i]]]])

\* C15: after any sequence of calls of calculate_summary_metrics,
\* calculate_executive_summary and generate_forecast on a table, with changes
\* of its Category values in between, the view calculate_executive_summary
\* returns for the table, and for a forecast of the table, is the view it
\* returns for a freshly built table holding the same Category and year
\* values.
C15_ViewOfCurrentContent ==
    /\ pc = "exec" =>
          exec_summary_df = calculate_executive_summary(FreshTable(arg_before)).ret
    /\ pc = "exec_forecast" =>
          exec_summary_df = calculate_executive_summary(FreshTable(forecast_df)).ret

----------------------------------------------------------------------------
(* The base of the trend *)

\* The largest year of the table below its last one.
PreviousActual(df) == MaxOf(YearSet(df) \ {LastActual(df)})

\* C16: for every table with two numeric-labelled year columns at least,
\* whose two largest years are P < L, consecutive or not, and every row with
\* numbers vP and vL under them, the first forecast year L+1 of the row is
\* vL + (vL - vP).
C16_TrendOfLastTwoAvailable ==
    Extends =>
        LET L == LastActual(arg_before)
            P == PreviousActual(arg_before)
        IN  \A r \in 1..Len(arg_before.rows) :
                LET vL == CellOf(arg_before, r, StrOf(L))
                    vP == CellOf(arg_before, r, StrOf(P))
                IN  (vL.k = "num" /\ vP.k = "num") =>
                        CellOf(forecast_df, r, StrOf(L + 1)) = Num(vL.n + (vL.n - vP.n))

----------------------------------------------------------------------------
(* Operating expenses, interest and taxes *)

\* The category of row r as the views classify it, and whether it holds a
\* keyword.
CleanCategory(df, r) == str_strip(str_lower(AsStr(CellOf(df, r, T_Category))))
Holds(df, r, k) == str_contains(CleanCategory(df, r), str_lower(k))

\* Row r is counted in the Interest metric or in the Taxes metric.
InterestOrTaxRow(df, r) ==
    Holds(df, r, K_Interest_Expense) \/ Holds(df, r, K_Income_Tax)

OperatingKeywords ==
    <<K_Marketing, K_Salaries, K_Payroll, K_Travel, K_Hosting, K_Stationary,
      K_Rent, K_Utilities, K_Office, K_Professional, K_Insurance,
      K_Depreciation, K_Other_Operating, K_Amortization, K_Bad_Debt>>

\* The amounts of year y the operating keywords count, the rows of interest
\* and taxes left out.
OperatingWithoutInterestAndTax(df, y) ==
    SumSeq([j \in 1..Len(OperatingKeywords) |->
        SumSeq([r \in 1..Len(df.rows) |->
            IF Holds(df, r, OperatingKeywords[j]) /\ ~InterestOrTaxRow(df, r)
            THEN CellOf(df, r, y).n ELSE 0])])

\* C17: for every table and year no row counted in Interest or in Taxes is
\* counted in Operating Expenses: Operating Expenses is the sum its keywords
\* give over the other rows, and EBIT = Gross Margin - Operating Expenses is
\* not reduced by a row of interest or taxes.
C17_NoInterestInOperating ==
    ExecutiveDone =>
        \A i \in 1..Len(exec_summary_df.years) :
            /\ Exec(i, "Operating Expenses")
                  = OperatingWithoutInterestAndTax(arg_before, exec_summary_df.years[i])
            /\ Exec(i, "EBIT (Earnings before Interest and Taxes)")
                  = Exec(i, "Gross Margin (Profit)")
                    - OperatingWithoutInterestAndTax(arg_before, exec_summary_df.years[i])

----------------------------------------------------------------------------
(* The views of the manual-entry table *)

\* The rows of the template: sales, the two deductions, cost of goods sold,
\* and the eighteen expense rows, of which one is the interest.
ExpenseRows == 5..22
InterestRow == CHOOSE r \in ExpenseRows : categories[r] = K_Interest_Expense

\* The amount of row r of the table the views were computed from, in the
\* i-th year column of the views.
Entered(i, r) == CellOf(forecast_df, r, exec_summary_df.years[i]).n

RECURSIVE SumOver(_, _)
SumOver(i, rows) ==
    IF rows = {} THEN 0
    ELSE LET r == CHOOSE x \in rows : TRUE
         IN  Entered(i, r) + SumOver(i, rows \ {r})

Summary(i, metric) == summary_df.cells[i][metric]

\* C18: for the table of get_empty_template with any numbers entered, before
\* or after generate_forecast, in every year Total Expenses is the sum of the
\* 18 expense rows, each once and none of the other 4 rows; the executive
\* view's Net Sales and Gross Margin are the summary's net sales and Gross
\* Profit; Total Expenses = Operating Expenses + Interest and Net Profit =
\* EBIT - Interest.
C18_TemplateViewsAgree ==
    ExecutiveDone =>
        /\ summary_df.years = exec_summary_df.years
        /\ \A i \in 1..Len(exec_summary_df.years) :
             /\ Summary(i, "Total Expenses") = SumOver(i, ExpenseRows)
             /\ Exec(i, "Net Sales") = Entered(i, 1) + Entered(i, 2) + Entered(i, 3)
             /\ Exec(i, "Gross Margin (Profit)") = Summary(i, "Gross Profit")
             /\ Summary(i, "Gross Profit") = Exec(i, "Net Sales") - Entered(i, 4)
             /\ Exec(i, "Interest") = Entered(i, InterestRow)
             /\ Summary(i, "Total Expenses")
                   = Exec(i, "Operating Expenses") + Exec(i, "Interest")
             /\ Summary(i, "Net Profit")
                   = Exec(i, "EBIT (Earnings before Interest and Taxes)")
                     - Exec(i, "Interest")

\* Every row of the template with its own amount in 2024, the forecast run
\* to 2026: Total Expenses of 2024 is 2^22 - 2^4, the interest 2^16.
C18_Witness ==
    /\ ExecutiveDone
    /\ Len(forecast_df.rows) = 22
    /\ exec_summary_df.years = <<StrOf(2024), StrOf(2025), StrOf(2026)>>
    /\ Summary(1, "Total Expenses") = 4194288
    /\ Exec(1, "Interest") = 65536
    /\ Exec(1, "Net Sales") = 7
    /\ Summary(2, "Total Expenses") # 0

====
